---- MODULE Spec2Model ----
(***************************************************************************)
(* chessops: the notation layer (src/fen.ts, src/util.ts).                 *)
(*                                                                         *)
(* A JavaScript string is a sequence of one-character strings.  An         *)
(* optional value (T | undefined) is a sequence of length 0 or 1, except   *)
(* an optional role, which is a role name or "undefined".  A Result is a   *)
(* record with ok = TRUE and a value, or ok = FALSE and an error code.     *)
(***************************************************************************)
EXTENDS Integers, Sequences, FiniteSets, TLC

VARIABLES
    inp,    \* the argument of the operation under check
    mid,    \* the text a formatter produced from inp
    out,    \* the value the parser returned
    pc,     \* "init", "formatted", "parsed"
    scan    \* the locals of parseBoardFen's loop while it runs

vars == <<inp, mid, out, pc, scan>>

-----------------------------------------------------------------------------
(* JavaScript strings and numbers                                          *)

Str(s) == [i \in 1..Len(s) |-> SubSeq(s, i, i)]

\* the printable ASCII characters, in code order from 32 (space) to 126; the
\* double quote (34), the backslash (92) and the backtick (96) are written by name
Ascii ==
    Str(" !") \o <<"dquote">> \o Str("#$%&'(") \o Str(")") \o Str("*+,-./0123456789:;<=>?@")
    \o Str("ABCDEFGHIJKLMNOPQRSTUVWXYZ[") \o <<"backslash">>
    \o Str("]^_") \o <<"backtick">> \o Str("abcdefghijklmnopqrstuvwxyz{|}~")

\* the code of each printable character
CharCodes ==
    [c \in {Ascii[i] : i \in 1..Len(Ascii)} |->
        31 + (CHOOSE i \in 1..Len(Ascii) : Ascii[i] = c)]

\* c.charCodeAt(0)
CharCode(c) == CharCodes[c]

FromCharCode(n) == Ascii[n - 31]

IsUpperChar(c) == CharCode(c) >= CharCode("A") /\ CharCode(c) <= CharCode("Z")

IsLowerChar(c) == CharCode(c) >= CharCode("a") /\ CharCode(c) <= CharCode("z")

IsDigitChar(c) == CharCode(c) >= CharCode("0") /\ CharCode(c) <= CharCode("9")

ToLowerChar(c) == IF IsUpperChar(c) THEN FromCharCode(CharCode(c) + 32) ELSE c

ToUpperChar(c) == IF IsLowerChar(c) THEN FromCharCode(CharCode(c) - 32) ELSE c

ToUpperCase(str) == [i \in 1..Len(str) |-> ToUpperChar(str[i])]

Min(a, b) == IF a < b THEN a ELSE b

Max(a, b) == IF a < b THEN b ELSE a

\* str.slice(start, end) and str.substr(start, length), indices from 0
Slice(str, start, end) == SubSeq(str, start + 1, Min(end, Len(str)))

Substr(str, start, length) == Slice(str, start, start + length)

\* str[i], indices from 0: a character, or <<>> where JavaScript gives undefined
CharAt(str, i) == IF i >= 0 /\ i < Len(str) THEN <<str[i + 1]>> ELSE <<>>

\* haystack.indexOf(needle, from) for a one-character needle; -1 when absent
IndexOf(haystack, needle, from) ==
    LET hits == {i \in Max(from, 0)..(Len(haystack) - 1) : haystack[i + 1] = needle}
    IN  IF hits = {} THEN 0 - 1 ELSE CHOOSE i \in hits : \A j \in hits : i <= j

\* str.split(sep) for a one-character separator
RECURSIVE Split(_, _)
Split(str, sep) ==
    LET k == IndexOf(str, sep, 0)
    IN  IF k < 0 THEN <<str>>
        ELSE <<Slice(str, 0, k)>> \o Split(Slice(str, k + 1, Len(str)), sep)

\* parts.join(sep)
RECURSIVE Join(_, _)
Join(parts, sep) ==
    IF Len(parts) = 0 THEN <<>>
    ELSE IF Len(parts) = 1 THEN parts[1]
    ELSE parts[1] \o <<sep>> \o Join(Tail(parts), sep)

Includes(str, c) == \E i \in 1..Len(str) : str[i] = c

EndsWith(str, c) == Len(str) > 0 /\ str[Len(str)] = c

\* the decimal text of a number >= 0, as string conversion writes it
RECURSIVE NumberToString(_)
NumberToString(n) ==
    IF n < 10 THEN <<FromCharCode(CharCode("0") + n)>>
    ELSE NumberToString(n \div 10) \o <<FromCharCode(CharCode("0") + (n % 10))>>

\* parseInt(str, 10) of a text of digits
RECURSIVE DigitsValue(_)
DigitsValue(str) ==
    IF Len(str) = 0 THEN 0
    ELSE 10 * DigitsValue(SubSeq(str, 1, Len(str) - 1))
         + (CharCode(str[Len(str)]) - CharCode("0"))

\* a & b and a >> n on numbers >= 0
RECURSIVE BitAnd(_, _)
BitAnd(a, b) ==
    IF a = 0 \/ b = 0 THEN 0
    ELSE 2 * BitAnd(a \div 2, b \div 2) + (IF a % 2 = 1 /\ b % 2 = 1 THEN 1 ELSE 0)

ShiftRight(a, n) == a \div (2 ^ n)

-----------------------------------------------------------------------------
(* src/util.ts                                                             *)

Undefined == "undefined"

ROLES == <<"pawn", "knight", "bishop", "rook", "queen", "king">>

COLORS == <<"white", "black">>

Roles == {ROLES[i] : i \in 1..Len(ROLES)}

Squares == 0..63

squareRank(square) == ShiftRight(square, 3)

\* squareFile with a four-bit mask, for comparison
squareFileMasked(square) == BitAnd(square, 15)

squareFile(square) == BitAnd(square, 7)

roleToChar(role) ==
    CASE role = "pawn" -> "p"
      [] role = "knight" -> "n"
      [] role = "bishop" -> "b"
      [] role = "rook" -> "r"
      [] role = "queen" -> "q"
      [] role = "king" -> "k"

charToRole(ch) ==
    CASE ch \in {"P", "p"} -> "pawn"
      [] ch \in {"N", "n"} -> "knight"
      [] ch \in {"B", "b"} -> "bishop"
      [] ch \in {"R", "r"} -> "rook"
      [] ch \in {"Q", "q"} -> "queen"
      [] ch \in {"K", "k"} -> "king"
      [] OTHER -> Undefined

\* /^[a-h][1-8]$/.test(str)
SquareRegex(str) ==
    /\ Len(str) = 2
    /\ CharCode(str[1]) >= CharCode("a") /\ CharCode(str[1]) <= CharCode("h")
    /\ CharCode(str[2]) >= CharCode("1") /\ CharCode(str[2]) <= CharCode("8")

\* parseSquare without the test of the pattern, for comparison
parseSquareUnchecked(str) ==
    IF Len(str) # 2 THEN <<>>
    ELSE <<CharCode(str[1]) - CharCode("a") + 8 * (CharCode(str[2]) - CharCode("1"))>>

parseSquare(str) ==
    IF ~SquareRegex(str) THEN <<>>
    ELSE <<CharCode(str[1]) - CharCode("a") + 8 * (CharCode(str[2]) - CharCode("1"))>>

makeSquare(square) ==
    <<Str("abcdefgh")[squareFile(square) + 1], Str("12345678")[squareRank(square) + 1]>>

\* isDrop of src/types.ts: a drop carries a role, a normal move a from-square
isDrop(move) == move.tag = "drop"

NormalMove(from, to, promotion) ==
    [tag |-> "normal", from |-> from, to |-> to, promotion |-> promotion, role |-> Undefined]

DropMove(role, to) ==
    [tag |-> "drop", from |-> <<>>, to |-> to, promotion |-> Undefined, role |-> role]

\* parseUci without the test that a fifth character names a role, for comparison
parseUciAnyPromotion(str) ==
    IF CharAt(str, 1) = <<"@">> /\ Len(str) = 4 THEN
        LET role == charToRole(str[1])
            to == parseSquare(Slice(str, 2, Len(str)))
        IN  IF role # Undefined /\ to # <<>> THEN <<DropMove(role, to[1])>> ELSE <<>>
    ELSE IF Len(str) = 4 \/ Len(str) = 5 THEN
        LET from == parseSquare(Slice(str, 0, 2))
            to == parseSquare(Slice(str, 2, 4))
            promotion == IF Len(str) = 5 THEN charToRole(str[5]) ELSE Undefined
        IN  IF from # <<>> /\ to # <<>>
            THEN <<NormalMove(<<from[1]>>, to[1], promotion)>>
            ELSE <<>>
    ELSE <<>>

parseUci(str) ==
    IF CharAt(str, 1) = <<"@">> /\ Len(str) = 4 THEN
        LET role == charToRole(str[1])
            to == parseSquare(Slice(str, 2, Len(str)))
        IN  IF role # Undefined /\ to # <<>> THEN <<DropMove(role, to[1])>> ELSE <<>>
    ELSE IF Len(str) = 4 \/ Len(str) = 5 THEN
        LET from == parseSquare(Slice(str, 0, 2))
            to == parseSquare(Slice(str, 2, 4))
            promotion == IF Len(str) = 5 THEN charToRole(str[5]) ELSE Undefined
        IN  IF Len(str) = 5 /\ promotion = Undefined THEN <<>>
            ELSE IF from # <<>> /\ to # <<>>
            THEN <<NormalMove(<<from[1]>>, to[1], promotion)>>
            ELSE <<>>
    ELSE <<>>

makeUci(move) ==
    IF isDrop(move)
    THEN <<ToUpperChar(roleToChar(move.role)), "@">> \o makeSquare(move.to)
    ELSE makeSquare(move.from[1]) \o makeSquare(move.to)
         \o (IF move.promotion # Undefined THEN <<roleToChar(move.promotion)>> ELSE <<>>)

\* nthIndexOf(haystack, needle, n): where the (n+1)-th needle is, or -1
RECURSIVE nthIndexOfFrom(_, _, _, _)
nthIndexOfFrom(haystack, needle, n, index) ==
    IF n <= 0 \/ index = 0 - 1 THEN index
    ELSE nthIndexOfFrom(haystack, needle, n - 1, IndexOf(haystack, needle, index + 1))

nthIndexOf(haystack, needle, n) ==
    nthIndexOfFrom(haystack, needle, n, IndexOf(haystack, needle, 0))

RECURSIVE strRepeat(_, _)
strRepeat(str, num) == IF num <= 0 THEN <<>> ELSE str \o strRepeat(str, num - 1)

-----------------------------------------------------------------------------
(* Board, Material, SquareSet, RemainingChecks and Result: the parts of     *)
(* src/board.ts, src/setup.ts, src/squareSet.ts and @badrap/result that     *)
(* src/fen.ts calls                                                         *)

NoPiece == [role |-> "none", color |-> "none", promoted |-> FALSE]

Piece(role, color, promoted) == [role |-> role, color |-> color, promoted |-> promoted]

\* Board.empty()
BoardEmpty == [sq \in Squares |-> NoPiece]

\* board.get(square): NoPiece stands for undefined
BoardGet(board, square) == board[square]

\* board.set(square, piece): overwrites what the square held
BoardSet(board, square, piece) == [board EXCEPT ![square] = piece]

\* board.pieces(color, role): the squares holding such a piece
BoardPieces(board, color, role) ==
    {sq \in Squares : board[sq].role = role /\ board[sq].color = color}

\* board.kingOf(color): the square of the color's only king, else undefined
kingOf(board, color) ==
    LET kings == BoardPieces(board, color, "king")
    IN  IF Cardinality(kings) = 1 THEN <<CHOOSE sq \in kings : TRUE>> ELSE <<>>

\* SquareSet.fromRank(rank)
FromRank(rank) == {sq \in Squares : squareRank(sq) = rank}

\* squareSet.first() and squareSet.last() of a set that is not empty
SetFirst(set) == CHOOSE sq \in set : \A other \in set : sq <= other

SetLast(set) == CHOOSE sq \in set : \A other \in set : sq >= other

\* squareSet.reversed(): the squares from the highest down
RECURSIVE Reversed(_)
Reversed(set) ==
    IF set = {} THEN <<>> ELSE <<SetLast(set)>> \o Reversed(set \ {SetLast(set)})

\* Material.empty()
MaterialEmpty ==
    [color \in {"white", "black"} |-> [role \in Roles |-> 0]]

RemainingChecks(white, black) == [white |-> white, black |-> black]

Ok(value) == [ok |-> TRUE, value |-> value, error |-> "none"]

Err(code) == [ok |-> FALSE, value |-> <<>>, error |-> code]

-----------------------------------------------------------------------------
(* src/fen.ts: parsing                                                     *)

ERR_FEN == "ERR_FEN"
ERR_BOARD == "ERR_BOARD"
ERR_POCKETS == "ERR_POCKETS"
ERR_TURN == "ERR_TURN"
ERR_CASTLING == "ERR_CASTLING"
ERR_EP_SQUARE == "ERR_EP_SQUARE"
ERR_REMAINING_CHECKS == "ERR_REMAINING_CHECKS"
ERR_HALFMOVES == "ERR_HALFMOVES"
ERR_FULLMOVES == "ERR_FULLMOVES"

InvalidFen ==
    {ERR_FEN, ERR_BOARD, ERR_POCKETS, ERR_TURN, ERR_CASTLING, ERR_EP_SQUARE,
     ERR_REMAINING_CHECKS, ERR_HALFMOVES, ERR_FULLMOVES}

\* /^\d{1,4}$/.test(str)
SmallUintRegex(str) ==
    Len(str) >= 1 /\ Len(str) <= 4 /\ \A i \in 1..Len(str) : IsDigitChar(str[i])

\* parseSmallUint without the limit of four digits, for comparison
parseSmallUintAnyLength(str) ==
    IF Len(str) >= 1 /\ (\A i \in 1..Len(str) : IsDigitChar(str[i]))
    THEN <<DigitsValue(str)>> ELSE <<>>

parseSmallUint(str) ==
    IF SmallUintRegex(str) THEN <<DigitsValue(str)>> ELSE <<>>

charToPiece(ch) ==
    LET lower == ToLowerChar(ch)
        role == charToRole(lower)
    IN  IF role = Undefined THEN <<>>
        ELSE <<Piece(role, IF lower = ch THEN "black" ELSE "white", FALSE)>>

\* parseInt(c, 10) of one character: <<>> stands for NaN
ParseIntChar(c) == IF IsDigitChar(c) THEN <<CharCode(c) - CharCode("0")>> ELSE <<>>

\* the locals of parseBoardFen before its loop; sets lists the calls
\* board.set(square, piece) made so far, each with the file and rank it was made at
ScanStart(boardPart) ==
    [status |-> "scanning", text |-> boardPart, i |-> 0, rank |-> 7, file |-> 0,
     board |-> BoardEmpty, sets |-> <<>>]

\* ScanStep without the test of file >= 8 before a piece is set, for comparison
ScanStepNoFileCheck(st) ==
    LET c == st.text[st.i + 1]
        step == ParseIntChar(c)
    IN  IF c = "/" /\ st.file = 8
        THEN [st EXCEPT !.file = 0, !.rank = st.rank - 1, !.i = st.i + 1]
        ELSE IF step # <<>> /\ step[1] # 0
        THEN [st EXCEPT !.file = st.file + step[1], !.i = st.i + 1]
        ELSE IF st.rank < 0
        THEN [st EXCEPT !.status = "err"]
        ELSE LET square == st.file + st.rank * 8
                 piece == charToPiece(c)
                 promoted == CharAt(st.text, st.i + 1) = <<"~">>
             IN  IF piece = <<>>
                 THEN [st EXCEPT !.status = "err"]
                 ELSE [st EXCEPT !.board = BoardSet(st.board, square,
                                      [piece[1] EXCEPT !.promoted = promoted]),
                                 !.sets = Append(st.sets,
                                     [square |-> square, file |-> st.file, rank |-> st.rank]),
                                 !.file = st.file + 1,
                                 !.i = st.i + (IF promoted THEN 2 ELSE 1)]

\* one turn of parseBoardFen's loop, i < boardPart.length
ScanStep(st) ==
    LET c == st.text[st.i + 1]
        step == ParseIntChar(c)
    IN  IF c = "/" /\ st.file = 8
        THEN [st EXCEPT !.file = 0, !.rank = st.rank - 1, !.i = st.i + 1]
        ELSE IF step # <<>> /\ step[1] # 0
        THEN [st EXCEPT !.file = st.file + step[1], !.i = st.i + 1]
        ELSE IF st.file >= 8 \/ st.rank < 0
        THEN [st EXCEPT !.status = "err"]
        ELSE LET square == st.file + st.rank * 8
                 piece == charToPiece(c)
                 promoted == CharAt(st.text, st.i + 1) = <<"~">>
             IN  IF piece = <<>>
                 THEN [st EXCEPT !.status = "err"]
                 ELSE [st EXCEPT !.board = BoardSet(st.board, square,
                                      [piece[1] EXCEPT !.promoted = promoted]),
                                 !.sets = Append(st.sets,
                                     [square |-> square, file |-> st.file, rank |-> st.rank]),
                                 !.file = st.file + 1,
                                 !.i = st.i + (IF promoted THEN 2 ELSE 1)]

\* after the loop: if (rank != 0 || file != 8) return err
ScanFinish(st) ==
    IF st.rank # 0 \/ st.file # 8
    THEN [st EXCEPT !.status = "err"]
    ELSE [st EXCEPT !.status = "ok"]

RECURSIVE ScanRun(_)
ScanRun(st) ==
    IF st.status # "scanning" THEN st
    ELSE IF st.i < Len(st.text) THEN ScanRun(ScanStep(st))
    ELSE ScanFinish(st)

parseBoardFen(boardPart) ==
    LET st == ScanRun(ScanStart(boardPart))
    IN  IF st.status = "ok" THEN Ok(st.board) ELSE Err(ERR_BOARD)

RECURSIVE PocketsLoop(_, _)
PocketsLoop(pocketPart, pockets) ==
    IF Len(pocketPart) = 0 THEN Ok(pockets)
    ELSE LET piece == charToPiece(Head(pocketPart))
         IN  IF piece = <<>> THEN Err(ERR_POCKETS)
             ELSE PocketsLoop(Tail(pocketPart),
                    [pockets EXCEPT ![piece[1].color][piece[1].role] = @ + 1])

\* parsePockets skipping the characters that name no piece, for comparison
parsePocketsSkipping(pocketPart) ==
    PocketsLoop(SelectSeq(pocketPart, LAMBDA c : charToPiece(c) # <<>>), MaterialEmpty)

parsePockets(pocketPart) == PocketsLoop(pocketPart, MaterialEmpty)

\* /^[KQABCDEFGH]{0,2}[kqabcdefgh]{0,2}$/.test(castlingPart)
CastlingRegex(castlingPart) ==
    LET upper == {"K", "Q", "A", "B", "C", "D", "E", "F", "G", "H"}
        lower == {"k", "q", "a", "b", "c", "d", "e", "f", "g", "h"}
    IN  \E n \in 0..Min(2, Len(castlingPart)) :
            /\ \A i \in 1..n : castlingPart[i] \in upper
            /\ Len(castlingPart) - n <= 2
            /\ \A i \in (n + 1)..Len(castlingPart) : castlingPart[i] \in lower

\* the inner loop without its stop at the king, for comparison
RECURSIVE ScanFilesPastKing(_, _, _, _)
ScanFilesPastKing(board, color, rank, files) ==
    IF Len(files) = 0 THEN {}
    ELSE LET square == Head(files) + 8 * rank
             piece == BoardGet(board, square)
         IN  IF piece.color = color /\ piece.role = "rook" THEN {square}
             ELSE ScanFilesPastKing(board, color, rank, Tail(files))

\* the inner loop of parseCastlingFen: the squares one letter adds
RECURSIVE ScanFilesLoop(_, _, _, _)
ScanFilesLoop(board, color, rank, files) ==
    IF Len(files) = 0 THEN {}
    ELSE LET square == Head(files) + 8 * rank
             piece == BoardGet(board, square)
         IN  IF piece = NoPiece THEN ScanFilesLoop(board, color, rank, Tail(files))
             ELSE IF piece.color = color /\ piece.role = "king" THEN {}
             ELSE IF piece.color = color /\ piece.role = "rook" THEN {square}
             ELSE ScanFilesLoop(board, color, rank, Tail(files))

ScanFiles(board, color, rank, files) == ScanFilesLoop(board, color, rank, files)

\* the body of parseCastlingFen's outer loop for the letter c
CastlingLetter(board, c) ==
    LET lower == ToLowerChar(c)
        color == IF c = lower THEN "black" ELSE "white"
        rank == IF color = "white" THEN 0 ELSE 7
        files == IF lower = "q" THEN <<0, 1, 2, 3, 4, 5, 6, 7>>
                 ELSE IF lower = "k" THEN <<7, 6, 5, 4, 3, 2, 1, 0>>
                 ELSE <<CharCode(lower) - CharCode("a")>>
    IN  ScanFiles(board, color, rank, files)

parseCastlingFen(board, castlingPart) ==
    IF castlingPart = <<"-">> THEN Ok({})
    ELSE IF ~CastlingRegex(castlingPart) THEN Err(ERR_CASTLING)
    ELSE Ok(UNION {CastlingLetter(board, castlingPart[i]) : i \in 1..Len(castlingPart)})

ChecksPair(a, b, given) ==
    LET white == parseSmallUint(a)
        black == parseSmallUint(b)
    IN  IF white = <<>> \/ black = <<>> THEN Err(ERR_REMAINING_CHECKS)
        ELSE IF white[1] > 3 \/ black[1] > 3 THEN Err(ERR_REMAINING_CHECKS)
        ELSE IF given THEN Ok(RemainingChecks(3 - white[1], 3 - black[1]))
        ELSE Ok(RemainingChecks(white[1], black[1]))

\* parseRemainingChecks reading both forms as checks remaining, for comparison
parseRemainingChecksNoFlip(part) ==
    LET parts == Split(part, "+")
    IN  IF Len(parts) = 3 /\ parts[1] = <<>> THEN ChecksPair(parts[2], parts[3], FALSE)
        ELSE IF Len(parts) = 2 THEN ChecksPair(parts[1], parts[2], FALSE)
        ELSE Err(ERR_REMAINING_CHECKS)

parseRemainingChecks(part) ==
    LET parts == Split(part, "+")
    IN  IF Len(parts) = 3 /\ parts[1] = <<>> THEN ChecksPair(parts[2], parts[3], TRUE)
        ELSE IF Len(parts) = 2 THEN ChecksPair(parts[1], parts[2], FALSE)
        ELSE Err(ERR_REMAINING_CHECKS)

\* parts.shift(): what it returns (<<>> for undefined) and what it leaves
Shifted(parts) == IF Len(parts) = 0 THEN <<>> ELSE <<Head(parts)>>

Rest(parts) == IF Len(parts) = 0 THEN <<>> ELSE Tail(parts)

Setup(board, pockets, turn, unmovedRooks, remainingChecks, epSquare, halfmoves, fullmoves) ==
    [board |-> board, pockets |-> pockets, turn |-> turn, unmovedRooks |-> unmovedRooks,
     remainingChecks |-> remainingChecks, epSquare |-> epSquare,
     halfmoves |-> halfmoves, fullmoves |-> fullmoves]

\* GivenTwice never raised, for comparison
GivenTwiceIgnored(remainingChecksPart, early) == FALSE

\* if (defined(remainingChecksPart)) { if (defined(earlyRemainingChecks)) return err
GivenTwice(remainingChecksPart, early) == remainingChecksPart # <<>> /\ early

\* Chain with the castling result looked at first, for comparison
ChainCastlingFirst(pockets, unmovedRooks, remainingChecks) ==
    IF ~unmovedRooks.ok THEN <<unmovedRooks>>
    ELSE IF ~pockets.ok THEN <<pockets>>
    ELSE IF ~remainingChecks.ok THEN <<remainingChecks>>
    ELSE <<>>

\* pockets.chain(pockets => unmovedRooks.chain(unmovedRooks => remainingChecks.map(..)))
\* the first of the three results that is an error, or <<>>
Chain(pockets, unmovedRooks, remainingChecks) ==
    IF ~pockets.ok THEN <<pockets>>
    ELSE IF ~unmovedRooks.ok THEN <<unmovedRooks>>
    ELSE IF ~remainingChecks.ok THEN <<remainingChecks>>
    ELSE <<>>

\* parseFen from "// Castling" on: the callback of board.chain, with the
\* fields left after the turn
parseFenFields(board, pockets, turn, parts) ==
    LET castlingPart == Shifted(parts)
        parts3 == Rest(parts)
        unmovedRooks == IF castlingPart # <<>>
                        THEN parseCastlingFen(board, castlingPart[1])
                        ELSE Ok({})
        epPart == Shifted(parts3)
        parts4 == Rest(parts3)
        hasEp == epPart # <<>> /\ epPart[1] # <<"-">>
        epSquare == IF hasEp THEN parseSquare(epPart[1]) ELSE <<>>
        firstHalfmovePart == Shifted(parts4)
        early == firstHalfmovePart # <<>> /\ Includes(firstHalfmovePart[1], "+")
        earlyRemainingChecks == parseRemainingChecks(firstHalfmovePart[1])
        halfmovePart == IF early THEN Shifted(Rest(parts4)) ELSE firstHalfmovePart
        parts5 == IF early THEN Rest(Rest(parts4)) ELSE Rest(parts4)
        halfmoves == IF halfmovePart # <<>> THEN parseSmallUint(halfmovePart[1]) ELSE <<0>>
        fullmovesPart == Shifted(parts5)
        parts6 == Rest(parts5)
        fullmoves == IF fullmovesPart # <<>> THEN parseSmallUint(fullmovesPart[1]) ELSE <<1>>
        remainingChecksPart == Shifted(parts6)
        parts7 == Rest(parts6)
        parsedChecks ==
            IF remainingChecksPart # <<>> THEN parseRemainingChecks(remainingChecksPart[1])
            ELSE earlyRemainingChecks
        remainingChecks ==
            IF remainingChecksPart = <<>> /\ ~early THEN Ok(<<>>)
            ELSE IF parsedChecks.ok THEN Ok(<<parsedChecks.value>>)
            ELSE parsedChecks
    IN  IF hasEp /\ epSquare = <<>> THEN Err(ERR_EP_SQUARE)
        ELSE IF halfmoves = <<>> THEN Err(ERR_HALFMOVES)
        ELSE IF fullmoves = <<>> THEN Err(ERR_FULLMOVES)
        ELSE IF GivenTwice(remainingChecksPart, early) THEN Err(ERR_REMAINING_CHECKS)
        ELSE IF Len(parts7) # 0 THEN Err(ERR_FEN)
        ELSE IF Chain(pockets, unmovedRooks, remainingChecks) # <<>>
        THEN Chain(pockets, unmovedRooks, remainingChecks)[1]
        ELSE Ok(Setup(board, pockets.value, turn, unmovedRooks.value,
                      remainingChecks.value, epSquare, halfmoves[1], Max(1, fullmoves[1])))

parseFen(fen) ==
    LET parts0 == Split(fen, " ")
        boardPart == Head(parts0)
        parts1 == Tail(parts0)
        bracket == EndsWith(boardPart, "]")
        pocketStart == IF bracket THEN IndexOf(boardPart, "[", 0)
                       ELSE nthIndexOf(boardPart, "/", 7)
        board == IF pocketStart = 0 - 1 THEN parseBoardFen(boardPart)
                 ELSE parseBoardFen(Substr(boardPart, 0, pocketStart))
        parsedPockets ==
            IF bracket
            THEN parsePockets(Substr(boardPart, pocketStart + 1,
                                     Len(boardPart) - 1 - pocketStart - 1))
            ELSE parsePockets(Slice(boardPart, pocketStart + 1, Len(boardPart)))
        pockets == IF pocketStart = 0 - 1 THEN Ok(<<>>)
                   ELSE IF parsedPockets.ok THEN Ok(<<parsedPockets.value>>)
                   ELSE parsedPockets
        turnPart == Shifted(parts1)
        parts2 == Rest(parts1)
    IN  IF bracket /\ pocketStart = 0 - 1 THEN Err(ERR_FEN)
        ELSE IF turnPart # <<>> /\ turnPart[1] \notin {<<"w">>, <<"b">>} THEN Err(ERR_TURN)
        ELSE IF ~board.ok THEN board
        ELSE parseFenFields(board.value, pockets,
                            IF turnPart # <<>> /\ turnPart[1] = <<"b">> THEN "black"
                            ELSE "white", parts2)

-----------------------------------------------------------------------------
(* src/fen.ts: formatting                                                  *)

\* FenOpts; a call without opts behaves as with every option off
FenOpts(promoted, shredder, epd) ==
    [promoted |-> promoted, shredder |-> shredder, epd |-> epd]

DefaultOpts == FenOpts(FALSE, FALSE, FALSE)

makePiece(piece, opts) ==
    LET r == roleToChar(piece.role)
        cased == IF piece.color = "white" THEN ToUpperChar(r) ELSE r
    IN  IF opts.promoted /\ piece.promoted THEN <<cased, "~">> ELSE <<cased>>

\* makeBoardFen's inner loop over the files of a rank from file on, with the run
\* of empty squares counted so far; the run is written out and reset at file 7
RECURSIVE BoardFenFiles(_, _, _, _, _)
BoardFenFiles(board, opts, rank, file, empty) ==
    IF file >= 8 THEN <<>>
    ELSE LET piece == BoardGet(board, file + rank * 8)
             isEmpty == piece = NoPiece
             count == IF isEmpty THEN empty + 1 ELSE 0
             placed == IF isEmpty THEN <<>>
                       ELSE (IF empty # 0 THEN NumberToString(empty) ELSE <<>>)
                            \o makePiece(piece, opts)
             ended == IF file = 7
                      THEN (IF count # 0 THEN NumberToString(count) ELSE <<>>)
                           \o (IF rank # 0 THEN <<"/">> ELSE <<>>)
                      ELSE <<>>
         IN  placed \o ended \o BoardFenFiles(board, opts, rank, file + 1, count)

\* makeBoardFen's outer loop over the ranks from rank down to 0
RECURSIVE BoardFenRanks(_, _, _)
BoardFenRanks(board, opts, rank) ==
    IF rank < 0 THEN <<>>
    ELSE BoardFenFiles(board, opts, rank, 0, 0) \o BoardFenRanks(board, opts, rank - 1)

makeBoardFen(board, opts) == BoardFenRanks(board, opts, 7)

RECURSIVE PocketLoop(_, _)
PocketLoop(material, k) ==
    IF k > Len(ROLES) THEN <<>>
    ELSE strRepeat(<<roleToChar(ROLES[k])>>, material[ROLES[k]]) \o PocketLoop(material, k + 1)

makePocket(material) == PocketLoop(material, 1)

makePockets(pocket) == ToUpperCase(makePocket(pocket.white)) \o makePocket(pocket.black)

\* the letter makeCastlingFen writes for one unmoved rook
CastlingChar(board, color, rook, candidates, shredder) ==
    LET king == kingOf(board, color)
        truthyKing == king # <<>> /\ king[1] # 0
    IN  IF ~shredder /\ rook = SetFirst(candidates) /\ truthyKing /\ rook < king[1]
        THEN (IF color = "white" THEN "Q" ELSE "q")
        ELSE IF ~shredder /\ rook = SetLast(candidates) /\ truthyKing /\ king[1] < rook
        THEN (IF color = "white" THEN "K" ELSE "k")
        ELSE (IF color = "white" THEN Str("ABCDEFGH") ELSE Str("abcdefgh"))[BitAnd(rook, 7) + 1]

CastlingOf(board, unmovedRooks, opts, color) ==
    LET backrank == FromRank(IF color = "white" THEN 0 ELSE 7)
        candidates == BoardPieces(board, color, "rook") \cap backrank
        rooks == Reversed(unmovedRooks \cap candidates)
    IN  [k \in 1..Len(rooks) |->
            CastlingChar(board, color, rooks[k], candidates, opts.shredder)]

makeCastlingFen(board, unmovedRooks, opts) ==
    LET fen == CastlingOf(board, unmovedRooks, opts, COLORS[1])
               \o CastlingOf(board, unmovedRooks, opts, COLORS[2])
    IN  IF Len(fen) = 0 THEN <<"-">> ELSE fen

\* makeRemainingChecks writing the checks given, for comparison
makeRemainingChecksGiven(checks) ==
    NumberToString(3 - checks.white) \o <<"+">> \o NumberToString(3 - checks.black)

makeRemainingChecks(checks) ==
    NumberToString(checks.white) \o <<"+">> \o NumberToString(checks.black)

makeFen(setup, opts) ==
    Join(<<makeBoardFen(setup.board, opts)
            \o (IF setup.pockets # <<>>
                THEN <<"[">> \o makePockets(setup.pockets[1]) \o <<"]">>
                ELSE <<>>),
           <<Str(setup.turn)[1]>>,
           makeCastlingFen(setup.board, setup.unmovedRooks, opts),
           IF setup.epSquare # <<>> THEN makeSquare(setup.epSquare[1]) ELSE <<"-">>>>
         \o (IF setup.remainingChecks # <<>>
             THEN <<makeRemainingChecks(setup.remainingChecks[1])>> ELSE <<>>)
         \o (IF opts.epd THEN <<>>
             ELSE <<NumberToString(setup.halfmoves), NumberToString(setup.fullmoves)>>),
         " ")

-----------------------------------------------------------------------------
(* Bounded inputs                                                          *)

\* every text of at most n characters over an alphabet
RECURSIVE TextsUpTo(_, _)
TextsUpTo(alphabet, n) ==
    IF n = 0 THEN {<<>>}
    ELSE LET shorter == TextsUpTo(alphabet, n - 1)
         IN  shorter \cup {t \o <<c>> : t \in shorter, c \in alphabet}

NoScan == [status |-> "idle"]

-----------------------------------------------------------------------------
(* Square names: makeSquare then parseSquare, and parseSquare on any text  *)

MaxSquareLen == 3

SquareAlphabet == {"a", "h", "i", "backtick", "A", "1", "8", "0", "9"}

SquareInit ==
    /\ inp \in [kind : {"value"}, square : Squares]
               \cup [kind : {"text"}, text : TextsUpTo(SquareAlphabet, MaxSquareLen)]
    /\ mid = <<>>
    /\ out = <<>>
    /\ pc = "init"
    /\ scan = NoScan

SquareFormat ==
    /\ pc = "init" /\ inp.kind = "value"
    /\ mid' = makeSquare(inp.square)
    /\ pc' = "formatted"
    /\ UNCHANGED <<inp, out, scan>>

SquareParseBack ==
    /\ pc = "formatted"
    /\ out' = parseSquare(mid)
    /\ pc' = "parsed"
    /\ UNCHANGED <<inp, mid, scan>>

SquareParseText ==
    /\ pc = "init" /\ inp.kind = "text"
    /\ out' = parseSquare(inp.text)
    /\ pc' = "parsed"
    /\ UNCHANGED <<inp, mid, scan>>

SquareNext == SquareFormat \/ SquareParseBack \/ SquareParseText

SpecSquare == SquareInit /\ [][SquareNext]_vars

\* the 64 names [a-h][1-8], written out
SquareNames == {<<f, r>> : f \in {"a", "b", "c", "d", "e", "f", "g", "h"},
                           r \in {"1", "2", "3", "4", "5", "6", "7", "8"}}

\* C5: parseSquare(makeSquare(s)) = s for every square s, with
\* squareFile(s) = s mod 8 and squareRank(s) = s div 8; on any text parseSquare
\* returns undefined or a square in 0..63, and a square only for one of the 64
\* names [a-h][1-8].
SquareCodecBijection ==
    /\ (inp.kind = "value" =>
            /\ squareFile(inp.square) = inp.square % 8
            /\ squareRank(inp.square) = inp.square \div 8)
    /\ (pc = "formatted" =>
            /\ mid \in SquareNames
            /\ mid[1] = Str("abcdefgh")[(inp.square % 8) + 1]
            /\ mid[2] = Str("12345678")[(inp.square \div 8) + 1])
    /\ (pc = "parsed" /\ inp.kind = "value" => out = <<inp.square>>)
    /\ (pc = "parsed" /\ inp.kind = "text" =>
            /\ (out = <<>> \/ (Len(out) = 1 /\ out[1] \in Squares))
            /\ (out # <<>> <=> inp.text \in SquareNames))

SquareCodecWitness ==
    /\ pc = "parsed"
    /\ inp.kind = "value" /\ inp.square = 62 /\ mid = Str("g8") /\ out = <<62>>

-----------------------------------------------------------------------------
(* UCI move notation: makeUci then parseUci, and parseUci on any text      *)

MaxUciLen == 5

UciAlphabet == {"b", "1", "9", "@", "Q", "x"}

Moves ==
    {NormalMove(<<f>>, t, p) : f \in Squares, t \in Squares, p \in Roles \cup {Undefined}}
    \cup {DropMove(r, t) : r \in Roles, t \in Squares}

UciInit ==
    /\ inp \in [kind : {"value"}, move : Moves]
               \cup [kind : {"text"}, text : TextsUpTo(UciAlphabet, MaxUciLen)]
    /\ mid = <<>>
    /\ out = <<>>
    /\ pc = "init"
    /\ scan = NoScan

UciFormat ==
    /\ pc = "init" /\ inp.kind = "value"
    /\ mid' = makeUci(inp.move)
    /\ pc' = "formatted"
    /\ UNCHANGED <<inp, out, scan>>

UciParseBack ==
    /\ pc = "formatted"
    /\ out' = parseUci(mid)
    /\ pc' = "parsed"
    /\ UNCHANGED <<inp, mid, scan>>

UciParseText ==
    /\ pc = "init" /\ inp.kind = "text"
    /\ out' = parseUci(inp.text)
    /\ pc' = "parsed"
    /\ UNCHANGED <<inp, mid, scan>>

UciNext == UciFormat \/ UciParseBack \/ UciParseText

SpecUci == UciInit /\ [][UciNext]_vars

RoleChars == {"p", "n", "b", "r", "q", "k", "P", "N", "B", "R", "Q", "K"}

\* <square><square>[role char] or <role char>@<square>
IsUciForm(text) ==
    \/ /\ Len(text) \in {4, 5}
       /\ SubSeq(text, 1, 2) \in SquareNames
       /\ SubSeq(text, 3, 4) \in SquareNames
       /\ (Len(text) = 5 => text[5] \in RoleChars)
    \/ /\ Len(text) = 4
       /\ text[1] \in RoleChars
       /\ text[2] = "@"
       /\ SubSeq(text, 3, 4) \in SquareNames

\* C2: parseUci(makeUci(m)) is a move equal to m (same tag, squares, role or
\* promotion) for every normal move and every drop, and parseUci returns
\* undefined for every text that is neither <square><square>[role char] nor
\* <role char>@<square>.
UciRoundTrip ==
    pc = "parsed" =>
        /\ (inp.kind = "value" => out = <<inp.move>>)
        /\ (inp.kind = "text" /\ ~IsUciForm(inp.text) => out = <<>>)

UciWitness ==
    /\ pc = "parsed"
    /\ inp.kind = "value" /\ inp.move = NormalMove(<<52>>, 60, "queen")
    /\ mid = Str("e7e8q") /\ out = <<inp.move>>

-----------------------------------------------------------------------------
(* Remaining checks: makeRemainingChecks then parseRemainingChecks, and     *)
(* parseRemainingChecks on texts put together from numerals and "+"         *)

MaxChecksParts == 4

\* numerals of one to five digits, values on both sides of 3, and no numerals
Numerals ==
    {Str("0"), Str("3"), Str("4"), Str("03"), Str("0002"), Str("00001"), Str("10"),
     Str("x"), <<>>}

RECURSIVE SeqsUpTo(_, _)
SeqsUpTo(set, n) ==
    IF n = 0 THEN {<<>>}
    ELSE LET shorter == SeqsUpTo(set, n - 1)
         IN  shorter \cup {Append(t, x) : t \in shorter, x \in set}

\* a text is given by the pieces between its "+" signs
ChecksInit ==
    /\ inp \in [kind : {"value"}, checks : {RemainingChecks(w, b) : w \in 0..3, b \in 0..3}]
               \cup [kind : {"text"},
                     pieces : SeqsUpTo(Numerals, MaxChecksParts) \ {<<>>}]
    /\ mid = <<>>
    /\ out = Err("none")
    /\ pc = "init"
    /\ scan = NoScan

ChecksFormat ==
    /\ pc = "init" /\ inp.kind = "value"
    /\ mid' = makeRemainingChecks(inp.checks)
    /\ pc' = "formatted"
    /\ UNCHANGED <<inp, out, scan>>

ChecksParseBack ==
    /\ pc = "formatted"
    /\ out' = parseRemainingChecks(mid)
    /\ pc' = "parsed"
    /\ UNCHANGED <<inp, mid, scan>>

ChecksParseText ==
    /\ pc = "init" /\ inp.kind = "text"
    /\ out' = parseRemainingChecks(Join(inp.pieces, "+"))
    /\ pc' = "parsed"
    /\ UNCHANGED <<inp, mid, scan>>

ChecksNext == ChecksFormat \/ ChecksParseBack \/ ChecksParseText

SpecChecks == ChecksInit /\ [][ChecksNext]_vars

\* a decimal numeral the parser reads (one to four digits) with a value in 0..3
DecimalValues ==
    {<<d>> : d \in {"0", "1", "2", "3", "4", "5", "6", "7", "8", "9"}}

IsSmallNumeral(str) ==
    /\ Len(str) \in 1..4
    /\ \A i \in 1..Len(str) : <<str[i]>> \in DecimalValues
    /\ \A i \in 1..(Len(str) - 1) : str[i] = "0"
    /\ str[Len(str)] \in {"0", "1", "2", "3"}

LastDigit(str) == CHOOSE n \in 0..3 : NumberToString(n) = <<str[Len(str)]>>

-----------------------------------------------------------------------------
(* parseBoardFen, one turn of its loop at a time                            *)

MaxRanks == 9

\* what may stand between two "/": well-formed ranks, ranks that are too short
\* or too long, digits that overshoot, a zero, characters that are no pieces,
\* and "~" in and out of place
RankTexts ==
    {Str("8"), Str("p7"), Str("P~6k"), Str("rnbqkbnr"), Str("44"), Str("17"),
     Str("7"), Str("9"), Str("62p"), Str("4P4"), Str("0p7"), Str("x7"), Str("~8"),
     Str("7R~~"), <<>>}

LastRankTexts == {Str("8"), Str("R3K2R"), Str("7Q~"), Str("7"), Str("8p"), Str("53")}

MiddleRankTexts == {Str("8"), Str("3n~4"), Str("71p"), Str("8~")}

\* the ranks of a board text: the first, the second and the last vary
BoardRanks ==
    {[k \in 1..n |-> IF k = 1 THEN first ELSE IF k = n THEN last
                     ELSE IF k = 2 THEN second ELSE Str("8")] :
        n \in {m \in 1..MaxRanks : m >= MaxRanks - 2},
        first \in RankTexts, second \in MiddleRankTexts, last \in LastRankTexts}

BoardResult(st) == IF st.status = "ok" THEN Ok(st.board) ELSE Err(ERR_BOARD)

BoardInit ==
    /\ inp \in [kind : {"text"}, ranks : BoardRanks]
    /\ mid = <<>>
    /\ out = Err("none")
    /\ pc = "init"
    /\ scan = ScanStart(Join(inp.ranks, "/"))

\* a turn of the loop; a turn that returns an error ends the call
BoardScanStep ==
    /\ pc = "init" /\ scan.status = "scanning" /\ scan.i < Len(scan.text)
    /\ scan' = ScanStep(scan)
    /\ IF scan'.status = "scanning"
       THEN UNCHANGED <<out, pc>>
       ELSE out' = BoardResult(scan') /\ pc' = "parsed"
    /\ UNCHANGED <<inp, mid>>

\* the loop is over: the check of rank and file, and the return
BoardScanFinish ==
    /\ pc = "init" /\ scan.status = "scanning" /\ scan.i >= Len(scan.text)
    /\ scan' = ScanFinish(scan)
    /\ out' = BoardResult(scan')
    /\ pc' = "parsed"
    /\ UNCHANGED <<inp, mid>>

BoardNext == BoardScanStep \/ BoardScanFinish

SpecBoard == BoardInit /\ [][BoardNext]_vars

PieceChars == {"p", "n", "b", "r", "q", "k", "P", "N", "B", "R", "Q", "K"}

\* the files a rank text accounts for: a digit 1..9 for that many, a piece
\* letter (with "~" after it or not) for one; <<>> if the text is no such list
RECURSIVE RankWidth(_)
RankWidth(str) ==
    IF Len(str) = 0 THEN <<0>>
    ELSE LET digits == {n \in 1..9 : NumberToString(n) = <<Head(str)>>}
             marked == Len(str) >= 2 /\ str[2] = "~"
             rest == IF Head(str) \in PieceChars
                     THEN RankWidth(SubSeq(str, IF marked THEN 3 ELSE 2, Len(str)))
                     ELSE IF digits # {} THEN RankWidth(Tail(str))
                     ELSE <<>>
         IN  IF rest = <<>> THEN <<>>
             ELSE IF digits # {} THEN <<rest[1] + (CHOOSE n \in digits : TRUE)>>
             ELSE <<rest[1] + 1>>

EightRanksOfEight(ranks) ==
    Len(ranks) = 8 /\ \A k \in 1..Len(ranks) : RankWidth(ranks[k]) = <<8>>

\* C7: while parseBoardFen scans, rank <= 7 and file >= 0; every call
\* board.set(square, piece) has square = file + 8 * rank in 0..63, and no square
\* is set twice; the parse succeeds exactly when the scan ends with rank = 0 and
\* file = 8, which is when the text is 8 ranks, "/" between them, of 8 files each.
BoardScanSafety ==
    /\ scan.rank <= 7 /\ scan.file >= 0
    /\ \A k \in 1..Len(scan.sets) :
          /\ scan.sets[k].square = scan.sets[k].file + 8 * scan.sets[k].rank
          /\ scan.sets[k].square >= 0 /\ scan.sets[k].square <= 63
          /\ \A j \in 1..(k - 1) : scan.sets[j].square # scan.sets[k].square
    /\ (pc = "parsed" =>
          /\ out.ok <=> (scan.i >= Len(scan.text) /\ scan.rank = 0 /\ scan.file = 8)
          /\ out.ok <=> EightRanksOfEight(inp.ranks))

BoardScanWitness ==
    /\ pc = "parsed" /\ out.ok
    /\ scan.text = Str("P~6k/3n~4/8/8/8/8/8/R3K2R")
    /\ Len(scan.sets) = 6
    /\ out.value[56] = Piece("pawn", "white", TRUE)
    /\ out.value[4] = Piece("king", "white", FALSE)

-----------------------------------------------------------------------------
(* parseCastlingFen on boards with rooks and kings on and off the home ranks *)

MaxCastlingLen == 4

CastlingAlphabet == {"K", "Q", "k", "q", "B", "h", "-"}

CastlingBoardTexts ==
    {Str("r3k2r/8/8/8/8/8/8/R3K2R"),
     Str("1r2k1r1/8/8/8/8/8/8/1R2K1R1"),
     Str("rr2k3/8/8/8/8/8/8/RR2K3"),
     Str("k2r3r/8/8/8/8/8/8/K2R3R"),
     Str("4k3/rr5r/8/8/8/8/RR5R/4K3"),
     Str("R3k2R/8/8/8/8/8/8/r3K2r"),
     Str("r2k1k1r/8/8/8/8/8/8/R2K1K1R"),
     Str("nr2k1qr/8/8/8/8/8/8/NR2K1QR"),
     Str("8/8/8/8/8/8/8/8")}

CastlingBoards == {parseBoardFen(t).value : t \in CastlingBoardTexts}

CastlingInit ==
    /\ inp \in [kind : {"text"}, board : CastlingBoards,
                text : TextsUpTo(CastlingAlphabet, MaxCastlingLen)]
    /\ mid = <<>>
    /\ out = Err("none")
    /\ pc = "init"
    /\ scan = NoScan

CastlingParse ==
    /\ pc = "init"
    /\ out' = parseCastlingFen(inp.board, inp.text)
    /\ pc' = "parsed"
    /\ UNCHANGED <<inp, mid, scan>>

CastlingNext == CastlingParse

SpecCastling == CastlingInit /\ [][CastlingNext]_vars

HomeRank(color) == IF color = "white" THEN 0 ELSE 7

\* a king of the color stands on the home rank between the end the letter's
\* scan starts from (h for K and k, a for Q and q) and the square, or on it
KingBefore(board, color, fromH, sq) ==
    \E k \in Squares :
        /\ k \div 8 = HomeRank(color)
        /\ board[k].role = "king" /\ board[k].color = color
        /\ IF fromH THEN k >= sq ELSE k <= sq

\* C4: when parseCastlingFen succeeds, every square of unmovedRooks holds a rook
\* of the letter's color on that color's home rank (rank 0 for white letters,
\* rank 7 for black), each letter adds at most one square, and a K, Q, k or q
\* never selects a rook beyond the king of its color on that rank.
CastlingRooksOnHomeRank ==
    pc = "parsed" /\ out.ok =>
        LET board == inp.board
            whites == {i \in 1..Len(inp.text) : IsUpperChar(inp.text[i])}
            blacks == {i \in 1..Len(inp.text) : IsLowerChar(inp.text[i])}
        IN  /\ \A sq \in out.value :
                  /\ board[sq].role = "rook"
                  /\ \/ board[sq].color = "white" /\ sq \div 8 = 0 /\ whites # {}
                     \/ board[sq].color = "black" /\ sq \div 8 = 7 /\ blacks # {}
            /\ Cardinality({sq \in out.value : board[sq].color = "white"})
                   <= Cardinality(whites)
            /\ Cardinality({sq \in out.value : board[sq].color = "black"})
                   <= Cardinality(blacks)
            /\ \A i \in 1..Len(inp.text) :
                  LET c == inp.text[i]
                      color == IF IsUpperChar(c) THEN "white" ELSE "black"
                  IN  /\ Cardinality(CastlingLetter(board, c)) <= 1
                      /\ CastlingLetter(board, c) \subseteq out.value
                      /\ (c \in {"K", "Q", "k", "q"} =>
                            \A sq \in CastlingLetter(board, c) :
                                ~KingBefore(board, color, c \in {"K", "k"}, sq))

CastlingWitness ==
    /\ pc = "parsed" /\ out.ok
    /\ inp.text = Str("KQkq")
    /\ inp.board = parseBoardFen(Str("nr2k1qr/8/8/8/8/8/8/NR2K1QR")).value
    /\ out.value = {1, 7, 57, 63}

-----------------------------------------------------------------------------
(* parseFen on texts put together from fields                               *)

MaxFields == 9

MaxOdd == 3

Absent == <<"absent">>

EmptyBoardText == Str("8/8/8/8/8/8/8/8")

\* slot by slot: the board with its pockets, the turn, the castling rights, the
\* en passant square, the early remaining checks (most often absent), the
\* halfmove clock, the fullmove number, the trailing remaining checks, and
\* whatever follows
UsualField(k) ==
    CASE k = 1 -> EmptyBoardText
      [] k = 2 -> Str("w")
      [] k = 3 -> Str("-")
      [] k = 4 -> Str("-")
      [] k = 5 -> Absent
      [] k = 6 -> Str("0")
      [] k = 7 -> Str("1")
      [] k = 8 -> Str("3+3")
      [] OTHER -> Str("z")

OddFields(k) ==
    CASE k = 1 -> <<Str("8/8/8/8/8/8/8/7"), Str("8/8/8/8/8/8/8/8]"),
                    EmptyBoardText \o Str("[Pqq]"), EmptyBoardText \o Str("[Px]"),
                    EmptyBoardText \o Str("/Pqq"), Str("8/8/8/8/8/8/8/7[x]"),
                    Str("r3k2r/8/8/8/8/8/8/R3K2R")>>
      [] k = 2 -> <<Str("b"), Str("x"), <<>>>>
      [] k = 3 -> <<Str("Kq"), Str("x"), Str("AAA")>>
      [] k = 4 -> <<Str("e3"), Str("e9")>>
      [] k = 5 -> <<Str("1+2"), Str("+1+0"), Str("4+0")>>
      [] k = 6 -> <<Str("9999"), Str("12345"), Str("x")>>
      [] k = 7 -> <<Str("0"), Str("9999"), Str("10000")>>
      [] k = 8 -> <<Str("+0+3"), Str("3+x")>>
      [] OTHER -> <<<<>>>>

\* the choices for slots k..n, 0 for the usual field and i for the i-th unusual
\* one: at index odd, those with at most odd unusual fields
RECURSIVE FieldChoicesFrom(_, _)
FieldChoicesFrom(k, n) ==
    IF k > n THEN [odd \in 0..MaxOdd |-> {<<>>}]
    ELSE LET rest == FieldChoicesFrom(k + 1, n)
         IN  [odd \in 0..MaxOdd |->
                {<<0>> \o r : r \in rest[odd]}
                \cup (IF odd = 0 THEN {}
                      ELSE {<<i>> \o r : i \in 1..Len(OddFields(k)),
                                         r \in rest[odd - 1]})]

\* the fields chosen, without the slots left out
FenFields(choice) ==
    SelectSeq([k \in 1..Len(choice) |->
                  IF choice[k] = 0 THEN UsualField(k) ELSE OddFields(k)[choice[k]]],
              LAMBDA f : f # Absent)

FenInit ==
    /\ \E n \in 1..MaxFields :
       \E choice \in FieldChoicesFrom(1, n)[MaxOdd] :
            inp = [kind |-> "text", fields |-> FenFields(choice)]
    /\ mid = <<>>
    /\ out = Err("none")
    /\ pc = "init"
    /\ scan = NoScan

FenParse ==
    /\ pc = "init"
    /\ out' = parseFen(Join(inp.fields, " "))
    /\ pc' = "parsed"
    /\ UNCHANGED <<inp, mid, scan>>

FenNext == FenParse

SpecFen == FenInit /\ [][FenNext]_vars

\* The fields as the FEN format lays them out.  The first field is the board,
\* then the pockets: in brackets, or after an eighth "/".
Brackets(field) == EndsWith(field, "]") /\ Includes(field, "[")

Unopened(field) == EndsWith(field, "]") /\ ~Includes(field, "[")

BeforeBracket(field) ==
    SubSeq(field, 1, (CHOOSE i \in 1..Len(field) :
                        field[i] = "[" /\ \A j \in 1..(i - 1) : field[j] # "[") - 1)

BoardRanksOf(field) ==
    IF Brackets(field) THEN Split(BeforeBracket(field), "/")
    ELSE SubSeq(Split(field, "/"), 1, 8)

PocketTextOf(field) ==
    IF Brackets(field)
    THEN SubSeq(field, Len(BeforeBracket(field)) + 2, Len(field) - 1)
    ELSE IF Len(Split(field, "/")) > 8
    THEN Join(SubSeq(Split(field, "/"), 9, Len(Split(field, "/"))), "/")
    ELSE <<>>

HasField(f, k) == Len(f) >= k

HasEarlyChecks(f) == HasField(f, 5) /\ Includes(f[5], "+")

HalfmoveAt(f) == IF HasEarlyChecks(f) THEN 6 ELSE 5

TrailingAt(f) == HalfmoveAt(f) + 2

IsClockText(str) ==
    Len(str) \in 1..4 /\ \A i \in 1..Len(str) : <<str[i]>> \in DecimalValues

CastlingLetters == {"K", "Q", "A", "B", "C", "D", "E", "F", "G", "H",
                    "k", "q", "a", "b", "c", "d", "e", "f", "g", "h"}

BadBoard(f) == ~EightRanksOfEight(BoardRanksOf(f[1]))

BadPockets(f) == \E i \in 1..Len(PocketTextOf(f[1])) : PocketTextOf(f[1])[i] \notin PieceChars

BadTurn(f) == HasField(f, 2) /\ f[2] \notin {Str("w"), Str("b")}

BadCastlingLetters(f) ==
    HasField(f, 3) /\ f[3] # Str("-") /\ \E i \in 1..Len(f[3]) : f[3][i] \notin CastlingLetters

BadEpSquare(f) == HasField(f, 4) /\ f[4] # Str("-") /\ f[4] \notin SquareNames

BadHalfmoves(f) == HasField(f, HalfmoveAt(f)) /\ ~IsClockText(f[HalfmoveAt(f)])

BadFullmoves(f) == HasField(f, HalfmoveAt(f) + 1) /\ ~IsClockText(f[HalfmoveAt(f) + 1])

\* C3: parseFen returns a result, a Setup or an error with one InvalidFen code,
\* and an error whenever the board part is not 8 ranks of 8 squares, the pocket
\* part has a character that is no piece, the turn is neither w nor b, the
\* castling field is neither - nor made of castling letters, the en passant
\* field is neither - nor a square name, or a clock is not 1 to 4 digits.
FenRejectsMalformed ==
    pc = "parsed" =>
        LET f == inp.fields
        IN  /\ (~out.ok => out.error \in InvalidFen)
            /\ (out.ok => out.error = "none" /\ out.value.turn \in {"white", "black"})
            /\ (BadBoard(f) \/ BadPockets(f) \/ BadTurn(f) \/ BadCastlingLetters(f)
                \/ BadEpSquare(f) \/ BadHalfmoves(f) \/ BadFullmoves(f) => ~out.ok)

FenRejectsWitness ==
    /\ pc = "parsed" /\ ~out.ok /\ out.error = ERR_POCKETS
    /\ inp.fields = <<EmptyBoardText \o Str("[Px]"), Str("b"), Str("-"), Str("e3"),
                      Str("0"), Str("1")>>

\* the two remaining-checks fields do not say the same
ChecksConflict(early, trailing) ==
    LET a == parseRemainingChecks(early)
        b == parseRemainingChecks(trailing)
    IN  ~(a.ok /\ b.ok /\ a.value = b.value)

\* C6: a FEN with a remaining-checks field before the halfmove clock and
\* another after the fullmove number, the two in conflict, is rejected with an
\* error; no Setup is built from either.
FenRejectsConflictingChecks ==
    pc = "parsed" =>
        LET f == inp.fields
        IN  HasEarlyChecks(f) /\ HasField(f, 8) /\ ChecksConflict(f[5], f[8]) => ~out.ok

FenConflictWitness ==
    /\ pc = "parsed" /\ ~out.ok /\ out.error = ERR_REMAINING_CHECKS
    /\ inp.fields = <<EmptyBoardText, Str("w"), Str("-"), Str("-"), Str("1+2"),
                      Str("0"), Str("1"), Str("+0+3")>>

\* C9: a Setup parseFen returns has halfmoves in 0..9999, fullmoves in 1..9999
\* (a fullmove field of 0 gives 1), pocket counts >= 0 and, if it has remaining
\* checks, both in 0..3; a field left out gives turn white, no unmoved rooks, no
\* en passant square, halfmoves 0, fullmoves 1, no remaining checks.
FenSetupRanges ==
    pc = "parsed" /\ out.ok =>
        LET f == inp.fields
            setup == out.value
        IN  /\ setup.halfmoves \in 0..9999
            /\ setup.fullmoves \in 1..9999
            /\ (HasField(f, HalfmoveAt(f) + 1) /\ f[HalfmoveAt(f) + 1] = Str("0")
                    => setup.fullmoves = 1)
            /\ (setup.pockets # <<>> =>
                    \A color \in {"white", "black"} : \A role \in Roles :
                        setup.pockets[1][color][role] >= 0)
            /\ (setup.remainingChecks # <<>> =>
                    /\ setup.remainingChecks[1].white \in 0..3
                    /\ setup.remainingChecks[1].black \in 0..3)
            /\ (~HasField(f, 2) => setup.turn = "white")
            /\ (~HasField(f, 3) => setup.unmovedRooks = {})
            /\ (~HasField(f, 4) => setup.epSquare = <<>>)
            /\ (~HasField(f, HalfmoveAt(f)) => setup.halfmoves = 0)
            /\ (~HasField(f, HalfmoveAt(f) + 1) => setup.fullmoves = 1)
            /\ (~HasEarlyChecks(f) /\ ~HasField(f, TrailingAt(f))
                    => setup.remainingChecks = <<>>)

FenRangesWitness ==
    /\ pc = "parsed" /\ out.ok
    /\ inp.fields = <<EmptyBoardText \o Str("[Pqq]"), Str("w"), Str("-"), Str("-"),
                      Str("+1+0"), Str("0"), Str("0")>>
    /\ out.value.fullmoves = 1 /\ out.value.halfmoves = 0
    /\ out.value.remainingChecks = <<RemainingChecks(2, 3)>>
    /\ out.value.pockets[1]["black"]["queen"] = 2

\* the remaining-checks field that counts, if there is one, does not parse
BadChecks(f) ==
    \/ HasEarlyChecks(f) /\ ~parseRemainingChecks(f[5]).ok
    \/ ~HasEarlyChecks(f) /\ HasField(f, 7) /\ ~parseRemainingChecks(f[7]).ok

\* the error of the first malformation in the order of the claim, or "none"
FirstError(f) ==
    CASE Unopened(f[1]) -> ERR_FEN
      [] BadTurn(f) -> ERR_TURN
      [] BadBoard(f) -> ERR_BOARD
      [] BadEpSquare(f) -> ERR_EP_SQUARE
      [] BadHalfmoves(f) -> ERR_HALFMOVES
      [] BadFullmoves(f) -> ERR_FULLMOVES
      [] HasEarlyChecks(f) /\ HasField(f, 8) -> ERR_REMAINING_CHECKS
      [] HasField(f, TrailingAt(f) + 1) -> ERR_FEN
      [] BadPockets(f) -> ERR_POCKETS
      [] HasField(f, 3) /\ f[3] # Str("-") /\ ~CastlingRegex(f[3]) -> ERR_CASTLING
      [] BadChecks(f) -> ERR_REMAINING_CHECKS
      [] OTHER -> "none"

\* C10: of several malformed fields parseFen reports one, by the precedence
\* ERR_FEN (a pocket "]" without "["), ERR_TURN, ERR_BOARD, ERR_EP_SQUARE,
\* ERR_HALFMOVES, ERR_FULLMOVES, ERR_REMAINING_CHECKS (the field given twice),
\* ERR_FEN (fields after the last), ERR_POCKETS, ERR_CASTLING,
\* ERR_REMAINING_CHECKS (a malformed field): a bad turn before a bad board, and
\* a bad castling field only if the en passant and clock fields are well-formed.
FenErrorPrecedence ==
    pc = "parsed" =>
        LET f == inp.fields
        IN  /\ out.error = FirstError(f)
            /\ (out.error = ERR_CASTLING =>
                    ~BadEpSquare(f) /\ ~BadHalfmoves(f) /\ ~BadFullmoves(f))

FenPrecedenceWitness ==
    /\ pc = "parsed" /\ out.error = ERR_TURN
    /\ inp.fields = <<Str("8/8/8/8/8/8/8/7[x]"), Str("x"), Str("AAA"), Str("-"),
                      Str("0"), Str("1")>>

-----------------------------------------------------------------------------
(* makeFen without options, then parseFen                                   *)

SetupBoardTexts ==
    {Str("rnbqkbnr/pppppppp/8/8/8/8/PPPPPPPP/RNBQKBNR"),
     Str("1r2k1r1/8/8/8/8/8/8/1R2K1R1"),
     Str("rr2k3/8/8/8/8/8/8/RR2K2R"),
     Str("5rk1/8/8/8/8/4K3/8/R4R2"),
     Str("7r/8/8/8/8/8/8/K6R"),
     Str("4k3/8/8/8/8/8/8/R2Q~K2R"),
     Str("8/8/8/8/8/8/8/8")}

SetupBoards == {parseBoardFen(t).value : t \in SetupBoardTexts}

\* the rooks that may keep castling rights: those of a color on its home rank
HomeRooks(board) ==
    (BoardPieces(board, "white", "rook") \cap FromRank(0))
    \cup (BoardPieces(board, "black", "rook") \cap FromRank(7))

SomePockets ==
    [MaterialEmpty EXCEPT !["white"]["pawn"] = 2, !["white"]["queen"] = 1,
                          !["black"]["knight"] = 1]

\* every Setup here keeps the castling-rights invariant: its unmoved rooks are
\* rooks of a color on that color's home rank
RoundTripInit ==
    /\ \E board \in SetupBoards :
       \E pockets \in {<<>>, <<SomePockets>>}, turn \in {"white", "black"},
          unmovedRooks \in SUBSET HomeRooks(board),
          remainingChecks \in {<<>>, <<RemainingChecks(0, 3)>>},
          epSquare \in {<<>>, <<20>>},
          halfmoves \in {0, 9999, 10000}, fullmoves \in {1, 10000} :
            inp = [kind |-> "value",
                   setup |-> Setup(board, pockets, turn, unmovedRooks,
                                   remainingChecks, epSquare, halfmoves,
                                   fullmoves)]
    /\ mid = <<>>
    /\ out = Err("none")
    /\ pc = "init"
    /\ scan = NoScan

RoundTripFormat ==
    /\ pc = "init"
    /\ mid' = makeFen(inp.setup, DefaultOpts)
    /\ pc' = "formatted"
    /\ UNCHANGED <<inp, out, scan>>

RoundTripParse ==
    /\ pc = "formatted"
    /\ out' = parseFen(mid)
    /\ pc' = "parsed"
    /\ UNCHANGED <<inp, mid, scan>>

RoundTripNext == RoundTripFormat \/ RoundTripParse

SpecRoundTrip == RoundTripInit /\ [][RoundTripNext]_vars

\* C1 as claimed: parseFen(makeFen(s)) without options succeeds for every valid
\* Setup s and gives a Setup equal to s in every field, the promoted flag of
\* each piece included.
FenRoundTrip ==
    pc = "parsed" => out.ok /\ out.value = inp.setup

UnmovedOf(setup, color) == {sq \in setup.unmovedRooks : setup.board[sq].color = color}

\* C1 as amended: parseFen(makeFen(s)) without options succeeds and gives a
\* Setup equal to s in every field for every valid Setup s that has no promoted
\* piece, at most two unmoved rooks of a color, halfmoves at most 9999 and
\* fullmoves in 1..9999.
FenRoundTripWithinFormat ==
    pc = "parsed" =>
        LET s == inp.setup
        IN  /\ (\A sq \in Squares : ~s.board[sq].promoted)
            /\ Cardinality(UnmovedOf(s, "white")) <= 2
            /\ Cardinality(UnmovedOf(s, "black")) <= 2
            /\ s.halfmoves <= 9999
            /\ s.fullmoves >= 1 /\ s.fullmoves <= 9999
            => out.ok /\ out.value = s

FenRoundTripWitness ==
    /\ pc = "parsed" /\ out.ok /\ out.value = inp.setup
    /\ mid = Str("5rk1/8/8/8/8/4K3/8/R4R2[PPQn] b Qq e3 0+3 9999 1")

====
